---- MODULE Spec2Model ----
(***************************************************************************)
(* A model of the shiji/dingus task runner (Go sources): the command tree  *)
(* built by main/createCobraCommand, the flag provider, the variable       *)
(* provider (GetVariablesFor / getVariableValue), the prompt executor, the *)
(* template renderer and the command executor.                             *)
(*                                                                         *)
(* Go strings that flow as data are sequences of one-character strings;    *)
(* identifiers (variable keys, flag names, command names) are TLA+ strings.*)
(* Go values of type `any` are records [t, s, b, l] tagged by t.           *)
(***************************************************************************)
EXTENDS Integers, Sequences, FiniteSets, TLC

VARIABLES
    cfg,              \* the loaded *config.Config (immutable after load)
    pc,               \* position of the process: start, resolveRoot, resolveCmd,
                      \* waitExec, waitPrompt, exit
    node,             \* path of the cobra command the dispatcher selected
    def,              \* path of the CommandDefinition the RunE closure dereferences
    argv,             \* flags the user supplied: flag name -> string
    flags,            \* cmd.Flags() of the selected command after parsing: name -> string
    variables,        \* the map GetVariablesFor is filling
    todo,             \* keys the current range loop has not visited yet
    pending,          \* the blocking call in flight (executor or prompt UI)
    calls,            \* every executor call and prompt UI shown so far, with its outcome
    results,          \* what getVariableValue returned, per <<scope, key>>
    commandVariables, \* what GetVariablesFor returned to RunE
    err,              \* the error RunE returned
    exit              \* exit status of the process, -1 while it runs

vars == << cfg, pc, node, def, argv, flags, variables, todo, pending, calls,
           results, commandVariables, err, exit >>

-----------------------------------------------------------------------------
(* Bounds of the model *)

\* longest stdout a value-from-command / options-from-command may print
MaxOut == 2

\* most flags one command line supplies
MaxSupplied == 1

\* characters a command may print
Char == {"a", "\n", " "}

StringsUpTo(n) == UNION { [1..k -> Char] : k \in 0..n }

Stdouts == StringsUpTo(MaxOut)

Stderrs == { <<>>, <<"e", "\n">> }

-----------------------------------------------------------------------------
(* Go library functions *)

RECURSIVE TrimRight(_, _)
TrimRight(s, cutset) ==
    IF s # <<>> /\ s[Len(s)] \in cutset
    THEN TrimRight(SubSeq(s, 1, Len(s) - 1), cutset)
    ELSE s

\* index of the first sep in s, 0 when there is none
RECURSIVE IndexFrom(_, _, _)
IndexFrom(s, sep, i) ==
    IF i > Len(s) THEN 0
    ELSE IF s[i] = sep THEN i
    ELSE IndexFrom(s, sep, i + 1)

\* strings.Split(s, sep) for a one-character sep: Split("", sep) is [""]
RECURSIVE Split(_, _)
Split(s, sep) ==
    LET i == IndexFrom(s, sep, 1) IN
    IF i = 0 THEN << s >>
    ELSE << SubSeq(s, 1, i - 1) >> \o Split(SubSeq(s, i + 1, Len(s)), sep)

-----------------------------------------------------------------------------
(* Values of type any, and errors *)

Nil     == [t |-> "nil",    s |-> <<>>, b |-> FALSE, l |-> <<>>]
Str(x)  == [t |-> "string", s |-> x,    b |-> FALSE, l |-> <<>>]
Bool(x) == [t |-> "bool",   s |-> <<>>, b |-> x,     l |-> <<>>]
List(x) == [t |-> "list",   s |-> <<>>, b |-> FALSE, l |-> x]

NoErr == [kind |-> "nil", name |-> "", msg |-> <<>>]
\* fmt.Errorf("variable %s is required", name)
RequiredErr(name) == [kind |-> "required", name |-> name, msg |-> <<>>]
\* fmt.Errorf("%s", errStr)
StderrErr(text) == [kind |-> "stderr", name |-> "", msg |-> text]
\* the error of exec.Cmd.Run: spawn failure or non-zero exit
ProcessErr == [kind |-> "process", name |-> "", msg |-> <<>>]
\* fmt.Errorf("no prompts have been specified")
NoPromptErr == [kind |-> "noPrompt", name |-> "", msg |-> <<>>]
\* fmt.Errorf("only one prompt type can be specified")
OnlyOnePromptErr == [kind |-> "onlyOnePrompt", name |-> "", msg |-> <<>>]
\* the error huh's Run returns (user aborted)
UIErr == [kind |-> "ui", name |-> "", msg |-> <<>>]

\* const UnsetFlagSentinel = "SHIJI_UNSET_FLAG"
UnsetFlagSentinel ==
    << "S", "H", "I", "J", "I", "_", "U", "N", "S", "E", "T", "_", "F", "L", "A", "G" >>

-----------------------------------------------------------------------------
(* The configuration types of package config *)

\* *ExecutableCommand
NoCommand  == [nil |-> TRUE,  cmd |-> <<>>]
Command(c) == [nil |-> FALSE, cmd |-> c]

\* *TextPromptDefinition
NoText == [nil |-> TRUE, Default |-> <<>>]
TextPromptDefinition(dflt) == [nil |-> FALSE, Default |-> dflt]

\* *SelectPromptDefinition
NoSelect == [nil |-> TRUE, Options |-> <<>>, OptionsFrom |-> NoCommand]
SelectPromptDefinition(opts, from) ==
    [nil |-> FALSE, Options |-> opts, OptionsFrom |-> from]

\* *ConfirmPromptDefinition
NoConfirm == [nil |-> TRUE]
ConfirmPromptDefinition == [nil |-> FALSE]

\* *PromptDefinition
NoPrompt ==
    [nil |-> TRUE, Text |-> NoText, Select |-> NoSelect,
     MultiSelect |-> NoSelect, Confirm |-> NoConfirm]
PromptDefinition(text, select, multi, confirm) ==
    [nil |-> FALSE, Text |-> text, Select |-> select,
     MultiSelect |-> multi, Confirm |-> confirm]

VariableDefinition(value, valueFrom, flag, prompt, required) ==
    [Value |-> value, ValueFrom |-> valueFrom, Flag |-> flag,
     Prompt |-> prompt, Required |-> required]

CommandDefinition(execute, commands, variableDefinitions) ==
    [Execute |-> execute, Commands |-> commands, Variables |-> variableDefinitions]

Config(variableDefinitions, commands) ==
    [Variables |-> variableDefinitions, Commands |-> commands]

\* an empty Go map
EmptyMap == << >>

\* nodes of a parsed template: literal text, or the action {{.name}}
Text(s)     == [k |-> "text",  text |-> s,    name |-> ""]
Field(name) == [k |-> "field", text |-> <<>>, name |-> name]

-----------------------------------------------------------------------------
(* Blocking calls: the command executor and the prompt UI *)

NoCall ==
    [kind |-> "none", cmd |-> <<>>, ui |-> "", options |-> <<>>, dflt |-> <<>>]

\* executor.Execute(cmd, os.Stdin, buffers...) on behalf of kind valueFrom,
\* options (ui names the prompt kind that waits for the options) or final
ExecCall(kind, cmd, ui) ==
    [kind |-> kind, cmd |-> cmd, ui |-> ui, options |-> <<>>, dflt |-> <<>>]

\* a huh form run on the terminal
UICall(ui, options, dflt) ==
    [kind |-> "ui", cmd |-> <<>>, ui |-> ui, options |-> options, dflt |-> dflt]

\* what a function hands back to the loop: a value, an error, or a blocking call
StepValue(v) == [k |-> "value", val |-> v,   err |-> NoErr, call |-> NoCall]
StepErr(e)   == [k |-> "error", val |-> Nil, err |-> e,     call |-> NoCall]
StepCall(c)  == [k |-> "call",  val |-> Nil, err |-> NoErr, call |-> c]

\* outcomes of one bash process: ok is "Run returned nil"
ExecOutcome(ok, out, errText) == [ok |-> ok, stdout |-> out, stderr |-> errText]

\* the final command writes to the terminal: only what it wrote to stderr and
\* its status are recorded
ExecOutcomes(kind) ==
    IF kind = "final"
    THEN { ExecOutcome(ok, <<>>, e) : ok \in BOOLEAN, e \in Stderrs }
    ELSE { ExecOutcome(ok, o, e) : ok \in BOOLEAN, o \in Stdouts, e \in Stderrs }

\* the elements of s at the indices of set idx, in order
RECURSIVE Pick(_, _)
Pick(s, idx) ==
    IF idx = {} THEN <<>>
    ELSE LET i == CHOOSE j \in idx : \A k \in idx : j <= k
         IN  << s[i] >> \o Pick(s, idx \ {i})

UIOutcome(ok, v) == [ok |-> ok, val |-> v]

\* what the user can answer to a form
UIOutcomes(call) ==
    { UIOutcome(FALSE, Nil) } \cup
    IF call.ui = "text"
    THEN { UIOutcome(TRUE, Str(call.dflt)), UIOutcome(TRUE, Str(<< "a" >>)) }
    ELSE IF call.ui = "select"
    THEN IF call.options = <<>>
         THEN { UIOutcome(TRUE, Str(<<>>)) }
         ELSE { UIOutcome(TRUE, Str(call.options[i])) : i \in 1..Len(call.options) }
    ELSE IF call.ui = "multiSelect"
    THEN { UIOutcome(TRUE, List(Pick(call.options, idx))) :
             idx \in SUBSET (1..Len(call.options)) }
    ELSE { UIOutcome(TRUE, Bool(b)) : b \in BOOLEAN }

-----------------------------------------------------------------------------
(* package execution *)

\* a variant that takes output on stderr for a failure
bashExecuteStderrFails(o) ==
    IF o.ok /\ o.stderr = <<>> THEN NoErr ELSE ProcessErr

\* bashExecutor.Execute: the error of Run, whatever the streams hold
bashExecute(o) == IF o.ok THEN NoErr ELSE ProcessErr

-----------------------------------------------------------------------------
(* package variables: the flag provider *)

\* a variant that takes an empty value for the default as well
GetFlagValueEmptyIsUnset(fl, key) ==
    IF key \notin DOMAIN fl THEN [value |-> <<>>, ok |-> FALSE]
    ELSE IF fl[key] = UnsetFlagSentinel \/ fl[key] = <<>>
    THEN [value |-> <<>>, ok |-> FALSE]
    ELSE [value |-> fl[key], ok |-> TRUE]

\* cobraFlagProvider.GetFlagValue over the parsed flag set fl
GetFlagValue(fl, key) ==
    IF key \notin DOMAIN fl THEN [value |-> <<>>, ok |-> FALSE]
    ELSE IF fl[key] = UnsetFlagSentinel THEN [value |-> <<>>, ok |-> FALSE]
    ELSE [value |-> fl[key], ok |-> TRUE]

-----------------------------------------------------------------------------
(* package prompt *)

\* a variant that only rejects the empty definition
ensureMutualExclusivityAtLeastOne(pd) ==
    IF pd.Text.nil /\ pd.Select.nil /\ pd.MultiSelect.nil /\ pd.Confirm.nil
    THEN NoPromptErr
    ELSE NoErr

ensureMutualExclusivity(pd) ==
    LET count == (IF pd.Text.nil THEN 0 ELSE 1)
               + (IF pd.Select.nil THEN 0 ELSE 1)
               + (IF pd.MultiSelect.nil THEN 0 ELSE 1)
               + (IF pd.Confirm.nil THEN 0 ELSE 1)
    IN  IF count > 1 THEN OnlyOnePromptErr
        ELSE IF count = 0 THEN NoPromptErr
        ELSE NoErr

\* a variant that prefers the options command to the static list
makeOptionsCommandFirst(sd) ==
    IF ~sd.OptionsFrom.nil
    THEN [exec |-> TRUE, cmd |-> sd.OptionsFrom.cmd, options |-> <<>>]
    ELSE [exec |-> FALSE, cmd |-> <<>>, options |-> sd.Options]

\* executor.makeOptions: the static list, else the options command, else none
makeOptions(sd) ==
    IF Len(sd.Options) > 0
    THEN [exec |-> FALSE, cmd |-> <<>>, options |-> sd.Options]
    ELSE IF ~sd.OptionsFrom.nil
    THEN [exec |-> TRUE, cmd |-> sd.OptionsFrom.cmd, options |-> <<>>]
    ELSE [exec |-> FALSE, cmd |-> <<>>, options |-> <<>>]

\* executeSelectPrompt / executeMultiSelectPrompt up to their first blocking call
executeSelectPrompt(sd, ui) ==
    LET m == makeOptions(sd)
    IN  IF m.exec THEN StepCall(ExecCall("options", m.cmd, ui))
        ELSE StepCall(UICall(ui, m.options, <<>>))

\* a variant that does not look at the stderr buffer
getPromptOptionsFromCommandIgnoringStderr(o) ==
    IF bashExecute(o) # NoErr THEN [err |-> bashExecute(o), options |-> <<>>]
    ELSE [err |-> NoErr,
          options |-> Split(TrimRight(o.stdout, {"\n", " "}), "\n")]

\* executor.getPromptOptionsFromCommand, given what the options command did
getPromptOptionsFromCommand(o) ==
    IF bashExecute(o) # NoErr THEN [err |-> bashExecute(o), options |-> <<>>]
    ELSE IF o.stderr # <<>> THEN [err |-> StderrErr(o.stderr), options |-> <<>>]
    ELSE [err |-> NoErr,
          options |-> Split(TrimRight(o.stdout, {"\n", " "}), "\n")]

\* executor.Execute of the prompt executor, up to its first blocking call
promptExecute(pd) ==
    IF ensureMutualExclusivity(pd) # NoErr THEN StepErr(ensureMutualExclusivity(pd))
    ELSE IF ~pd.Text.nil THEN StepCall(UICall("text", <<>>, pd.Text.Default))
    ELSE IF ~pd.Select.nil THEN executeSelectPrompt(pd.Select, "select")
    ELSE IF ~pd.MultiSelect.nil THEN executeSelectPrompt(pd.MultiSelect, "multiSelect")
    ELSE IF ~pd.Confirm.nil THEN StepCall(UICall("confirm", <<>>, <<>>))
    ELSE StepErr(NoPromptErr)

-----------------------------------------------------------------------------
(* package variables: the variable provider *)

\* a variant that does not look at the stderr buffer
getVariableValueFromCommandIgnoringStderr(o) ==
    IF bashExecute(o) # NoErr THEN StepErr(bashExecute(o))
    ELSE StepValue(Str(TrimRight(o.stdout, {"\n", " "})))

\* a variant that trims trailing newlines only
getVariableValueFromCommandTrimmingNewlines(o) ==
    IF bashExecute(o) # NoErr THEN StepErr(bashExecute(o))
    ELSE IF o.stderr # <<>> THEN StepErr(StderrErr(o.stderr))
    ELSE StepValue(Str(TrimRight(o.stdout, {"\n"})))

\* getVariableValueFromCommand, given what the command did
getVariableValueFromCommand(o) ==
    IF bashExecute(o) # NoErr THEN StepErr(bashExecute(o))
    ELSE IF o.stderr # <<>> THEN StepErr(StderrErr(o.stderr))
    ELSE StepValue(Str(TrimRight(o.stdout, {"\n", " "})))

\* a variant that runs the value-from-command before it looks at the literal
getVariableValueCommandFirst(name, vd, fl) ==
    IF GetFlagValue(fl, name).ok THEN StepValue(Str(GetFlagValue(fl, name).value))
    ELSE IF ~vd.ValueFrom.nil THEN StepCall(ExecCall("valueFrom", vd.ValueFrom.cmd, ""))
    ELSE IF vd.Value # Nil THEN StepValue(vd.Value)
    ELSE IF ~vd.Prompt.nil THEN promptExecute(vd.Prompt)
    ELSE IF ~vd.Required THEN StepValue(Nil)
    ELSE StepErr(RequiredErr(name))

\* a variant that never reports a missing required variable
getVariableValueNeverRequired(name, vd, fl) ==
    IF GetFlagValue(fl, name).ok THEN StepValue(Str(GetFlagValue(fl, name).value))
    ELSE IF vd.Value # Nil THEN StepValue(vd.Value)
    ELSE IF ~vd.ValueFrom.nil THEN StepCall(ExecCall("valueFrom", vd.ValueFrom.cmd, ""))
    ELSE IF ~vd.Prompt.nil THEN promptExecute(vd.Prompt)
    ELSE StepValue(Nil)

\* a variant that validates the prompt definition before it looks at the
\* flag and the other sources
getVariableValueValidatingFirst(name, vd, fl) ==
    IF ~vd.Prompt.nil /\ ensureMutualExclusivity(vd.Prompt) # NoErr
    THEN StepErr(ensureMutualExclusivity(vd.Prompt))
    ELSE IF GetFlagValue(fl, name).ok THEN StepValue(Str(GetFlagValue(fl, name).value))
    ELSE IF vd.Value # Nil THEN StepValue(vd.Value)
    ELSE IF ~vd.ValueFrom.nil THEN StepCall(ExecCall("valueFrom", vd.ValueFrom.cmd, ""))
    ELSE IF ~vd.Prompt.nil THEN promptExecute(vd.Prompt)
    ELSE IF ~vd.Required THEN StepValue(Nil)
    ELSE StepErr(RequiredErr(name))

\* getVariableValue up to its first blocking call
getVariableValue(name, vd, fl) ==
    IF GetFlagValue(fl, name).ok THEN StepValue(Str(GetFlagValue(fl, name).value))
    ELSE IF vd.Value # Nil THEN StepValue(vd.Value)
    ELSE IF ~vd.ValueFrom.nil THEN StepCall(ExecCall("valueFrom", vd.ValueFrom.cmd, ""))
    ELSE IF ~vd.Prompt.nil THEN promptExecute(vd.Prompt)
    ELSE IF ~vd.Required THEN StepValue(Nil)
    ELSE StepErr(RequiredErr(name))

-----------------------------------------------------------------------------
(* package template *)

RECURSIVE Join(_)
Join(l) ==
    IF l = <<>> THEN <<>>
    ELSE IF Len(l) = 1 THEN l[1]
    ELSE l[1] \o << " " >> \o Join(Tail(l))

\* how text/template prints a value (fmt's %v); nil prints as <no value>
NoValueText == << "<", "n", "o", " ", "v", "a", "l", "u", "e", ">" >>

Format(v) ==
    IF v.t = "string" THEN v.s
    ELSE IF v.t = "bool" THEN (IF v.b THEN << "t", "r", "u", "e" >>
                                      ELSE << "f", "a", "l", "s", "e" >>)
    ELSE IF v.t = "list" THEN << "[" >> \o Join(v.l) \o << "]" >>
    ELSE NoValueText

\* F applied to the value of e: e is evaluated once, as Go evaluates the
\* right-hand side of := once
With(e, F(_)) == CHOOSE y \in { F(x) : x \in { e } } : TRUE

\* the error template.Parse returns for a malformed action
ParseErr == [kind |-> "template", name |-> "", msg |-> <<>>]

\* index of the first place at or after i where s holds a followed by b, else 0
RECURSIVE IndexPair(_, _, _, _)
IndexPair(s, a, b, i) ==
    IF i >= Len(s) THEN 0
    ELSE IF s[i] = a /\ s[i + 1] = b THEN i
    ELSE IndexPair(s, a, b, i + 1)

RECURSIVE TrimLeft(_, _)
TrimLeft(s, cutset) ==
    IF s # <<>> /\ s[1] \in cutset THEN TrimLeft(Tail(s), cutset) ELSE s

\* the characters of an identifier
IdentChar ==
    { "a", "b", "c", "d", "e", "f", "g", "h", "i", "j", "k", "l", "m", "n", "o",
      "p", "q", "r", "s", "t", "u", "v", "w", "x", "y", "z", "_" }

\* the contents of an action that is a field of dot: .name
IsField(action) ==
    /\ Len(action) >= 2
    /\ action[1] = "."
    /\ \A i \in 2..Len(action) : action[i] \in IdentChar

\* the identifier a sequence of characters spells
RECURSIVE Concat(_)
Concat(chars) ==
    IF chars = <<>> THEN "" ELSE chars[1] \o Concat(Tail(chars))

\* template.Parse: text up to the left delimiter {{ is a text node, whatever
\* it holds ($ and } included); what stands between {{ and }} is an action.
\* The actions of the model's templates are fields of dot; an action that is
\* not closed, is empty, or names a variable ($x) nobody declared is an error
RECURSIVE Parse(_)
Parse(s) ==
    With(s, LAMBDA t :
    With(IndexPair(t, "{", "{", 1), LAMBDA l :
        IF l = 0
        THEN [err |-> NoErr, tree |-> IF t = <<>> THEN <<>> ELSE << Text(t) >>]
        ELSE With(IndexPair(t, "}", "}", l + 2), LAMBDA r :
             IF r = 0 THEN [err |-> ParseErr, tree |-> <<>>]
             ELSE With(TrimLeft(TrimRight(SubSeq(t, l + 2, r - 1), {" "}), {" "}),
                       LAMBDA action :
                  With(Parse(SubSeq(t, r + 2, Len(t))), LAMBDA rest :
                      IF ~IsField(action) \/ rest.err # NoErr
                      THEN [err |-> ParseErr, tree |-> <<>>]
                      ELSE [err |-> NoErr,
                            tree |-> (IF l > 1 THEN << Text(SubSeq(t, 1, l - 1)) >>
                                      ELSE <<>>)
                                     \o << Field(Concat(Tail(action))) >>
                                     \o rest.tree])))))

\* tmpl.Execute over the map: a key the map lacks yields <no value>, no error
RECURSIVE ExecuteTemplate(_, _)
ExecuteTemplate(tmpl, m) ==
    IF tmpl = <<>> THEN <<>>
    ELSE LET tok == Head(tmpl)
             out == IF tok.k = "text" THEN tok.text
                    ELSE IF tok.name \in DOMAIN m THEN Format(m[tok.name])
                    ELSE NoValueText
         IN  out \o ExecuteTemplate(Tail(tmpl), m)

\* simpleRenderer.RenderTemplate: parse the template string, then execute it
RenderTemplate(templateString, m) ==
    With(Parse(templateString), LAMBDA p :
        IF p.err # NoErr THEN [err |-> p.err, out |-> <<>>]
        ELSE [err |-> NoErr, out |-> ExecuteTemplate(p.tree, m)])

-----------------------------------------------------------------------------
(* package main: building the cobra tree *)

RECURSIVE PathsOf(_)
\* the cobra commands of a command map, as paths of command names
PathsOf(commands) ==
    UNION { { << k >> } \cup { << k >> \o p : p \in PathsOf(commands[k].Commands) } :
            k \in DOMAIN commands }

RECURSIVE DefAt(_, _)
\* the CommandDefinition at a path
DefAt(commands, path) ==
    IF Len(path) = 1 THEN commands[path[1]]
    ELSE DefAt(commands[path[1]].Commands, Tail(path))

Parent(path) == SubSeq(path, 1, Len(path) - 1)

\* the map of sibling definitions a path's last name is a key of
SiblingsOf(commands, path) ==
    IF Len(path) = 1 THEN commands ELSE DefAt(commands, Parent(path)).Commands

\* a variant that names every flag by the variable's key
FlagNameOfKey(key, variable) == key

\* bindVariablesToCommand: the name of the flag registered for a variable
FlagNameOf(key, variable) ==
    IF variable.Flag # "" THEN variable.Flag ELSE key

\* bindVariablesToCommand: the flags one call registers, each with the
\* sentinel as default; pflag panics when a name is registered twice
bindVariablesToCommand(variableDefinitions) ==
    [names |-> { FlagNameOf(k, variableDefinitions[k]) : k \in DOMAIN variableDefinitions },
     panics |-> \E k1, k2 \in DOMAIN variableDefinitions :
                    /\ k1 # k2
                    /\ FlagNameOf(k1, variableDefinitions[k1])
                         = FlagNameOf(k2, variableDefinitions[k2])]

RECURSIVE createCobraCommandPanics(_)
\* createCobraCommand: whether building this node, or one below it, panics
createCobraCommandPanics(commandDefinition) ==
    \/ bindVariablesToCommand(commandDefinition.Variables).panics
    \/ \E k \in DOMAIN commandDefinition.Commands :
           createCobraCommandPanics(commandDefinition.Commands[k])

\* main, lines 33-37: whether building the whole tree panics
BuildPanics(c) ==
    \/ bindVariablesToCommand(c.Variables).panics
    \/ \E k \in DOMAIN c.Commands : createCobraCommandPanics(c.Commands[k])

\* the definitions the RunE closure of the command at path may dereference:
\* the range variable whose address createCobraCommand receives is one
\* variable per iteration (Go 1.22 and later), or one per loop (earlier), and
\* then it holds the sibling the map iteration visited last
HandlerDefs(commands, path) ==
    { path } \cup { Parent(path) \o << k >> : k \in DOMAIN SiblingsOf(commands, path) }

\* cmd.Flags() of the command at path once cobra has merged the persistent
\* flags of the root into the local ones (a local flag hides a persistent one)
FlagNamesAt(c, path) ==
    bindVariablesToCommand(DefAt(c.Commands, path).Variables).names
        \cup bindVariablesToCommand(c.Variables).names

\* values a user may give to a flag
FlagValues == { <<>>, << "x" >>, UnsetFlagSentinel }

\* command lines: at most MaxSupplied of the registered flags, each with a value
Argvs(names) ==
    UNION { [S -> FlagValues] : S \in { T \in SUBSET names : Cardinality(T) <= MaxSupplied } }

\* pflag parsing: a supplied flag holds its value, the others the default
ParsedFlags(names, supplied) ==
    [n \in names |-> IF n \in DOMAIN supplied THEN supplied[n] ELSE UnsetFlagSentinel]

-----------------------------------------------------------------------------
(* The handler: RunE and the loops of GetVariablesFor *)

NotReturned == [state |-> "none", m |-> EmptyMap]
NilBag      == [state |-> "nil",  m |-> EmptyMap]
Bag(m)      == [state |-> "map",  m |-> m]

Ctl(p, m, td, call, cv, e, x) ==
    [pc |-> p, variables |-> m, todo |-> td, pending |-> call,
     commandVariables |-> cv, err |-> e, exit |-> x]

NoPending == [kind |-> "none", cmd |-> <<>>, ui |-> "", options |-> <<>>,
              dflt |-> <<>>, scope |-> "", key |-> ""]

PendingOf(call, scope, key) ==
    [kind |-> call.kind, cmd |-> call.cmd, ui |-> call.ui, options |-> call.options,
     dflt |-> call.dflt, scope |-> scope, key |-> key]

\* a variant in which main drops the error of rootCmd.Execute
RunEReturnsDropped(m, cv, e) ==
    Ctl("exit", m, {}, NoPending, cv, e, 0)

\* RunE returns e: cobra returns it from Execute and main panics (status 2)
RunEReturns(m, cv, e) ==
    Ctl("exit", m, {}, NoPending, cv, e, IF e = NoErr THEN 0 ELSE 2)

\* a variant that does not look at the error of RenderTemplate
RunEIgnoringRenderError(commandDefinition, m) ==
    Ctl("waitExec", m, {},
        PendingOf(ExecCall("final", RenderTemplate(commandDefinition.Execute, m).out, ""),
                  "", ""),
        Bag(m), NoErr, -1)

\* RunE, lines 76-81, once GetVariablesFor returned the map m
RunE(commandDefinition, m) ==
    LET r == RenderTemplate(commandDefinition.Execute, m)
    IN  IF r.err # NoErr THEN RunEReturns(m, Bag(m), r.err)
        ELSE Ctl("waitExec", m, {}, PendingOf(ExecCall("final", r.out, ""), "", ""),
                 Bag(m), NoErr, -1)

\* a variant that starts the loop over the command's variables again when
\* it has ended
GetVariablesForAgain(c, commandDefinition, phase, m, td) ==
    IF td # {} THEN Ctl(phase, m, td, NoPending, NotReturned, NoErr, -1)
    ELSE IF phase = "enter" /\ DOMAIN c.Variables # {}
    THEN Ctl("resolveRoot", m, DOMAIN c.Variables, NoPending, NotReturned, NoErr, -1)
    ELSE IF DOMAIN commandDefinition.Variables # {}
    THEN Ctl("resolveCmd", m, DOMAIN commandDefinition.Variables, NoPending,
             NotReturned, NoErr, -1)
    ELSE RunE(commandDefinition, m)

\* GetVariablesFor: where control goes when phase (enter, resolveRoot,
\* resolveCmd) has the keys td left and the map m so far
GetVariablesFor(c, commandDefinition, phase, m, td) ==
    IF td # {} THEN Ctl(phase, m, td, NoPending, NotReturned, NoErr, -1)
    ELSE IF phase = "enter" /\ DOMAIN c.Variables # {}
    THEN Ctl("resolveRoot", m, DOMAIN c.Variables, NoPending, NotReturned, NoErr, -1)
    ELSE IF phase \in {"enter", "resolveRoot"} /\ DOMAIN commandDefinition.Variables # {}
    THEN Ctl("resolveCmd", m, DOMAIN commandDefinition.Variables, NoPending,
             NotReturned, NoErr, -1)
    ELSE RunE(commandDefinition, m)

\* a variant that returns the map filled so far together with the error
GetVariablesForFailsWithPartialBag(m, e) == RunEReturns(m, Bag(m), e)

\* GetVariablesFor, `return nil, err`, and RunE's `return err`
GetVariablesForFails(m, e) == RunEReturns(m, NilBag, e)

-----------------------------------------------------------------------------
(* The configurations example.yaml may hold *)

ValueCommand   == << "v", "c" >>
OptionsCommand == << "o", "c" >>
Literal        == Str(<< "l" >>)
StaticOptions  == << << "o" >>, << "p" >> >>

SelectVariants ==
    { SelectPromptDefinition(opts, from) :
        opts \in { <<>>, StaticOptions },
        from \in { NoCommand, Command(OptionsCommand) } }

\* every subset of the four prompt kinds; a select and a multi-select that
\* are both present are configured alike
PromptDefinitions ==
    { PromptDefinition(t, IF hasSelect THEN sv ELSE NoSelect,
                          IF hasMulti THEN sv ELSE NoSelect, c) :
        t \in { NoText, TextPromptDefinition(<< "d" >>) },
        hasSelect \in BOOLEAN, hasMulti \in BOOLEAN, sv \in SelectVariants,
        c \in { NoConfirm, ConfirmPromptDefinition } }

VariableDefinitions ==
    { VariableDefinition(v, vf, f, p, r) :
        v \in { Nil, Literal, Str(<<>>) },
        vf \in { NoCommand, Command(ValueCommand) },
        f \in { "", "f" },
        p \in { NoPrompt } \cup PromptDefinitions,
        r \in BOOLEAN }

\* r {{.v}}
RunTemplate == << "r", " ", "{", "{", ".", "v", "}", "}" >>

\* one command `run` and one variable v, defined at the root or on the command
ChainConfigs ==
    { Config(IF atRoot THEN "v" :> d ELSE EmptyMap,
             "run" :> CommandDefinition(RunTemplate, EmptyMap,
                                        IF atRoot THEN EmptyMap ELSE "v" :> d)) :
        d \in VariableDefinitions, atRoot \in BOOLEAN }

Lit(s) == VariableDefinition(Str(s), NoCommand, "", NoPrompt, FALSE)

Leaf(execute, variableDefinitions) ==
    CommandDefinition(execute, EmptyMap, variableDefinitions)

\* a command with neither a template nor subcommands
DeadEnd == Leaf(<<>>, EmptyMap)

\* {{.env}}{{.tgt}}
EnvTgt ==
    << "{", "{", ".", "e", "n", "v", "}", "}", "{", "{", ".", "t", "g", "t", "}", "}" >>

\* root variable env=p; build (no template, tgt=A) with subcommands fe
\* (env=s, tgt=B, itself parent of min) and be; a top-level greet; and a
\* dead-end node at the top level, below build, or nowhere
TreeConfig(dead) ==
    LET min == Leaf(<< "m", " " >> \o EnvTgt, EmptyMap)
        fe  == CommandDefinition(<< "f", " " >> \o EnvTgt,
                                 "min" :> min,
                                 ("env" :> Lit(<< "s" >>)) @@ ("tgt" :> Lit(<< "B" >>)))
        be  == Leaf(<< "b", " " >> \o EnvTgt, EmptyMap)
        build == CommandDefinition(<<>>,
                     ("fe" :> fe) @@ ("be" :> be)
                         @@ (IF dead = "nested" THEN "void" :> DeadEnd ELSE EmptyMap),
                     "tgt" :> Lit(<< "A" >>))
        greet == Leaf(<< "g", " ", "{", "{", ".", "e", "n", "v", "}", "}" >>, EmptyMap)
    IN  Config("env" :> Lit(<< "p" >>),
               ("build" :> build) @@ ("greet" :> greet)
                   @@ (IF dead = "top" THEN "void" :> DeadEnd ELSE EmptyMap))

TreeConfigs == { TreeConfig(dead) : dead \in { "none", "top", "nested" } }

\* two variables of one command that name the same override flag
ClashConfig ==
    Config(EmptyMap,
           "run" :> Leaf(RunTemplate,
                         ("v" :> VariableDefinition(Literal, NoCommand, "f", NoPrompt, FALSE))
                             @@ ("w" :> VariableDefinition(Nil, NoCommand, "f", NoPrompt, FALSE))))

Dingus == << "D", "i", "n", "g", "u", "s" >>

EchoHello == << "e", "c", "h", "o", " ", "H", "e", "l", "l", "o", " " >>

\* echo Hello $name
ShellStyleTemplate == EchoHello \o << "$", "n", "a", "m", "e" >>

\* echo Hello {{.name}}
FieldTemplate == EchoHello \o << "{", "{", ".", "n", "a", "m", "e", "}", "}" >>

\* echo Hello {{.who}}: a name no variable defines
MissingTemplate == EchoHello \o << "{", "{", ".", "w", "h", "o", "}", "}" >>

\* echo Hello {{.name: an action that is not closed
UnclosedTemplate == EchoHello \o << "{", "{", ".", "n", "a", "m", "e" >>

GreetTemplates ==
    { ShellStyleTemplate, FieldTemplate, MissingTemplate, UnclosedTemplate }

\* root variable name: Dingus and a command greet
GreetConfigs ==
    { Config("name" :> Lit(Dingus), "greet" :> Leaf(t, EmptyMap)) : t \in GreetTemplates }

\* a root variable v without a literal, and a command run that defines v again
ShadowConfigs ==
    { Config("v" :> d, "run" :> Leaf(RunTemplate, "v" :> Lit(<< "l" >>))) :
        d \in { x \in VariableDefinitions : x.Value = Nil /\ x.Flag = "" } }

\* c {{.w}}: a command text that holds a template action
TemplatedCommand == << "c", " ", "{", "{", ".", "w", "}", "}" >>

\* r {{.v}}{{.w}}
PairTemplate ==
    << "r", " ", "{", "{", ".", "v", "}", "}", "{", "{", ".", "w", "}", "}" >>

\* a prompt definition that populates no kind
EmptyPrompt == PromptDefinition(NoText, NoSelect, NoSelect, NoConfirm)

\* definitions for a command with two variables: a literal, a required and
\* an optional variable without a source, two value-from-commands, an invalid
\* prompt, and literals with the override flag names v and g
PairDefinitions ==
    { Lit(<< "l" >>),
      VariableDefinition(Nil, NoCommand, "", NoPrompt, TRUE),
      VariableDefinition(Nil, NoCommand, "", NoPrompt, FALSE),
      VariableDefinition(Nil, Command(ValueCommand), "", NoPrompt, FALSE),
      VariableDefinition(Nil, Command(TemplatedCommand), "", NoPrompt, FALSE),
      VariableDefinition(Nil, NoCommand, "", EmptyPrompt, FALSE),
      VariableDefinition(Literal, NoCommand, "v", NoPrompt, FALSE),
      VariableDefinition(Literal, NoCommand, "g", NoPrompt, FALSE) }

\* a command run with the two variables v and w
PairConfigs ==
    { Config(EmptyMap, "run" :> Leaf(PairTemplate, ("v" :> dv) @@ ("w" :> dw))) :
        dv \in PairDefinitions, dw \in PairDefinitions }

Configs ==
    ChainConfigs \cup TreeConfigs \cup { ClashConfig } \cup GreetConfigs
        \cup ShadowConfigs \cup PairConfigs

-----------------------------------------------------------------------------
(* The process *)

Init ==
    /\ cfg \in Configs
    /\ pc = "start"
    /\ node = <<>>
    /\ def = <<>>
    /\ argv = EmptyMap
    /\ flags = EmptyMap
    /\ variables = EmptyMap
    /\ todo = {}
    /\ pending = NoPending
    /\ calls = <<>>
    /\ results = {}
    /\ commandVariables = NotReturned
    /\ err = NoErr
    /\ exit = -1

Apply(ctl) ==
    /\ pc' = ctl.pc
    /\ variables' = ctl.variables
    /\ todo' = ctl.todo
    /\ pending' = ctl.pending
    /\ commandVariables' = ctl.commandVariables
    /\ err' = ctl.err
    /\ exit' = ctl.exit

\* the definition the running handler dereferences
Def == DefAt(cfg.Commands, def)

\* the variable map a loop of GetVariablesFor ranges over
ScopeVariables(scope) ==
    IF scope = "resolveRoot" THEN cfg.Variables ELSE Def.Variables

Result(scope, key, step) ==
    [scope |-> scope, key |-> key, val |-> step.val, err |-> step.err]

Logged(p, ok, out, errText, val) ==
    [kind |-> p.kind, cmd |-> p.cmd, ui |-> p.ui, options |-> p.options,
     scope |-> p.scope, key |-> p.key,
     ok |-> ok, stdout |-> out, stderr |-> errText, val |-> val]

\* a variant that renders the text of a command against the variables
\* resolved so far before it hands it to the executor
ResumeInterpolating(scope, key, step) ==
    IF step.k = "value"
    THEN /\ results' = results \cup { Result(scope, key, step) }
         /\ Apply(GetVariablesFor(cfg, Def, scope,
                                  (key :> step.val) @@ variables, todo \ {key}))
    ELSE IF step.k = "error"
    THEN /\ results' = results \cup { Result(scope, key, step) }
         /\ Apply(GetVariablesForFails(variables, step.err))
    ELSE /\ results' = results
         /\ Apply(Ctl(IF step.call.kind = "ui" THEN "waitPrompt" ELSE "waitExec",
                      variables, todo,
                      PendingOf([step.call EXCEPT
                                     !.cmd = RenderTemplate(@, variables).out],
                                scope, key),
                      NotReturned, NoErr, -1))

\* the loop body of GetVariablesFor once getVariableValue handed back step
\* for key of scope: store and go on, or return the error, or block
Resume(scope, key, step) ==
    IF step.k = "value"
    THEN /\ results' = results \cup { Result(scope, key, step) }
         /\ Apply(GetVariablesFor(cfg, Def, scope,
                                  (key :> step.val) @@ variables, todo \ {key}))
    ELSE IF step.k = "error"
    THEN /\ results' = results \cup { Result(scope, key, step) }
         /\ Apply(GetVariablesForFails(variables, step.err))
    ELSE /\ results' = results
         /\ Apply(Ctl(IF step.call.kind = "ui" THEN "waitPrompt" ELSE "waitExec",
                      variables, todo, PendingOf(step.call, scope, key),
                      NotReturned, NoErr, -1))

\* main: build the tree (a flag registered twice panics), parse the command
\* line, dispatch to a command and enter its RunE
main ==
    /\ pc = "start"
    /\ IF BuildPanics(cfg)
       THEN /\ pc' = "exit"
            /\ exit' = 2
            /\ UNCHANGED << node, def, argv, flags, variables, todo, pending,
                            commandVariables, err >>
       ELSE \E path \in PathsOf(cfg.Commands) :
            \E h \in HandlerDefs(cfg.Commands, path) :
            \E supplied \in Argvs(FlagNamesAt(cfg, path)) :
                /\ node' = path
                /\ def' = h
                /\ argv' = supplied
                /\ flags' = ParsedFlags(FlagNamesAt(cfg, path), supplied)
                /\ Apply(GetVariablesFor(cfg, DefAt(cfg.Commands, h), "enter",
                                         EmptyMap, {}))
    /\ UNCHANGED << cfg, calls, results >>

\* one iteration of a range loop of GetVariablesFor (Go visits the keys of a
\* map in any order), up to the first blocking call of getVariableValue
ResolveNext ==
    /\ pc \in { "resolveRoot", "resolveCmd" }
    /\ \E key \in todo :
           Resume(pc, key, getVariableValue(key, ScopeVariables(pc)[key], flags))
    /\ UNCHANGED << cfg, node, def, argv, flags, calls >>

\* the bash process the executor waits for ends
ExecReturns ==
    /\ pc = "waitExec"
    /\ \E o \in ExecOutcomes(pending.kind) :
        /\ calls' = Append(calls, Logged(pending, o.ok, o.stdout, o.stderr, Nil))
        /\ IF pending.kind = "valueFrom"
           THEN Resume(pending.scope, pending.key, getVariableValueFromCommand(o))
           ELSE IF pending.kind = "options"
           THEN LET r == getPromptOptionsFromCommand(o)
                IN  Resume(pending.scope, pending.key,
                           IF r.err # NoErr THEN StepErr(r.err)
                           ELSE StepCall(UICall(pending.ui, r.options, <<>>)))
           ELSE /\ results' = results
                /\ Apply(RunEReturns(variables, commandVariables, bashExecute(o)))
    /\ UNCHANGED << cfg, node, def, argv, flags >>

\* the form on the terminal ends
PromptReturns ==
    /\ pc = "waitPrompt"
    /\ \E u \in UIOutcomes(pending) :
        /\ calls' = Append(calls, Logged(pending, u.ok, <<>>, <<>>, u.val))
        /\ Resume(pending.scope, pending.key,
                  IF u.ok THEN StepValue(u.val) ELSE StepErr(UIErr))
    /\ UNCHANGED << cfg, node, def, argv, flags >>

Next == main \/ ResolveNext \/ ExecReturns \/ PromptReturns

Spec == Init /\ [][Next]_vars

\* the process keeps running, and every subprocess and every form returns
FairSpec == Spec /\ WF_vars(Next)

-----------------------------------------------------------------------------
(* Vocabulary of the properties *)

Scopes == { "resolveRoot", "resolveCmd" }

\* a command was dispatched and its handler runs
Running == node # <<>>

\* the handler dereferences the definition of the very node that was invoked
OwnHandler == Running /\ def = node

ResultsOf(scope, key) == { r \in results : r.scope = scope /\ r.key = key }

LoggedFor(scope, key) ==
    { calls[i] : i \in { j \in 1..Len(calls) :
                           calls[j].scope = scope /\ calls[j].key = key } }

InFlightFor(scope, key) ==
    pending.kind # "none" /\ pending.scope = scope /\ pending.key = key

\* neither the command executor nor the prompt UI was started for the variable
Untouched(scope, key) == LoggedFor(scope, key) = {} /\ ~InFlightFor(scope, key)

\* <<kind, ui, cmd>> of every call started for the variable
StartedFor(scope, key) ==
    { << c.kind, c.ui, c.cmd >> : c \in LoggedFor(scope, key) }
        \cup (IF InFlightFor(scope, key)
              THEN { << pending.kind, pending.ui, pending.cmd >> } ELSE {})

NoOverride(key) == ~GetFlagValue(flags, key).ok

PopulatedKinds(pd) ==
    (IF pd.Text.nil THEN {} ELSE { "text" })
        \cup (IF pd.Select.nil THEN {} ELSE { "select" })
        \cup (IF pd.MultiSelect.nil THEN {} ELSE { "multiSelect" })
        \cup (IF pd.Confirm.nil THEN {} ELSE { "confirm" })

\* the variable maps of the root and of every command above the node
AncestorScopes(path) ==
    { cfg.Variables }
        \cup { DefAt(cfg.Commands, SubSeq(path, 1, i)).Variables : i \in 1..(Len(path) - 1) }

HasDeadEnd(c) ==
    \E p \in PathsOf(c.Commands) :
        /\ DefAt(c.Commands, p).Execute = <<>>
        /\ DOMAIN DefAt(c.Commands, p).Commands = {}

IsGroup(commandDefinition) ==
    commandDefinition.Execute = <<>> /\ DOMAIN commandDefinition.Commands # {}

-----------------------------------------------------------------------------
(* C1 *)

\* C1: a variable whose registered flag (its override flag name, else its key)
\* was supplied with a non-sentinel string resolves to exactly that string,
\* whatever sources it configures, and no command or prompt is started for it.
C1_SuppliedFlagWins ==
    OwnHandler =>
        \A scope \in Scopes : \A key \in DOMAIN ScopeVariables(scope) :
            LET fn == FlagNameOf(key, ScopeVariables(scope)[key])
            IN  (fn \in DOMAIN argv /\ argv[fn] # UnsetFlagSentinel) =>
                    /\ Untouched(scope, key)
                    /\ \A r \in ResultsOf(scope, key) :
                           r.err = NoErr /\ r.val = Str(argv[fn])
                    /\ commandVariables.state = "map" =>
                           commandVariables.m[key] = Str(argv[fn])

-----------------------------------------------------------------------------
(* C2 *)

\* C2: with no flag override the sources are consulted in the order literal,
\* value-from-command, prompt and the first configured one decides: a literal
\* is returned as it is and nothing is started for the variable; without a
\* literal a configured value-from-command is run and no prompt is shown.
C2_FirstConfiguredSourceDecides ==
    Running =>
        \A scope \in Scopes : \A key \in DOMAIN ScopeVariables(scope) :
            LET vd == ScopeVariables(scope)[key]
            IN  NoOverride(key) =>
                    /\ vd.Value # Nil =>
                           /\ Untouched(scope, key)
                           /\ \A r \in ResultsOf(scope, key) :
                                  r.err = NoErr /\ r.val = vd.Value
                    /\ (vd.Value = Nil /\ ~vd.ValueFrom.nil) =>
                           /\ StartedFor(scope, key)
                                  \subseteq { << "valueFrom", "", vd.ValueFrom.cmd >> }
                           /\ ResultsOf(scope, key) # {} => LoggedFor(scope, key) # {}

\* a variable with a value-from-command and a prompt was resolved: the command ran
C2_Witness ==
    /\ Running
    /\ \E scope \in Scopes : \E key \in DOMAIN ScopeVariables(scope) :
           LET vd == ScopeVariables(scope)[key]
           IN  /\ vd.Value = Nil /\ ~vd.ValueFrom.nil /\ ~vd.Prompt.nil
               /\ NoOverride(key)
               /\ \E r \in ResultsOf(scope, key) : r.err = NoErr
               /\ LoggedFor(scope, key) # {}

-----------------------------------------------------------------------------
(* C3 *)

\* C3: when a value-from-command exited successfully but wrote to stderr, the
\* invocation has failed with the stderr text as its message, no bag was
\* returned, the variable got no value and nothing ran after the command.
C3_StderrFailsResolution ==
    \A i \in 1..Len(calls) :
        LET c == calls[i]
        IN  (c.kind = "valueFrom" /\ c.ok /\ c.stderr # <<>>) =>
                /\ pc = "exit" /\ exit # 0
                /\ err.kind = "stderr" /\ err.msg = c.stderr
                /\ commandVariables = NilBag
                /\ i = Len(calls) /\ pending.kind = "none"
                /\ ResultsOf(c.scope, c.key) # {}
                /\ \A r \in ResultsOf(c.scope, c.key) : r.err = err /\ r.val = Nil
                /\ c.key \in DOMAIN variables =>
                       c.scope = "resolveCmd" /\ c.key \in DOMAIN cfg.Variables

\* a successful value-from-command printed a value and wrote to stderr
C3_Witness ==
    \E i \in 1..Len(calls) :
        /\ calls[i].kind = "valueFrom" /\ calls[i].ok
        /\ calls[i].stderr # <<>> /\ calls[i].stdout = << "a" >>

-----------------------------------------------------------------------------
(* C4 *)

\* C4: when a value-from-command exited non-zero, the error of the invocation
\* is the captured stderr text if there is one, and the process error only
\* when stderr is empty.
C4_StderrTextBeatsProcessError ==
    \A i \in 1..Len(calls) :
        LET c == calls[i]
        IN  (c.kind = "valueFrom" /\ ~c.ok) =>
                /\ pc = "exit"
                /\ err = IF c.stderr # <<>> THEN StderrErr(c.stderr) ELSE ProcessErr

-----------------------------------------------------------------------------
(* C5 *)

\* C5: a variable with no literal, no value-from-command, no prompt and no
\* flag override: if required, the invocation fails with the error naming the
\* variable and no bag; if not required, it resolves to nil without starting
\* anything, and a bag that is returned holds nil under its key; the bag is
\* returned once every variable resolved without error.
C5_NoSourceRequiredOrNil ==
    Running =>
        /\ \A scope \in Scopes : \A key \in DOMAIN ScopeVariables(scope) :
            LET vd == ScopeVariables(scope)[key]
            IN  (vd.Value = Nil /\ vd.ValueFrom.nil /\ vd.Prompt.nil /\ NoOverride(key)) =>
                    /\ Untouched(scope, key)
                    /\ vd.Required =>
                           \A r \in ResultsOf(scope, key) :
                               /\ r.err = RequiredErr(key)
                               /\ pc = "exit" /\ exit # 0 /\ err = RequiredErr(key)
                               /\ commandVariables = NilBag
                    /\ ~vd.Required =>
                           /\ \A r \in ResultsOf(scope, key) : r.err = NoErr /\ r.val = Nil
                           /\ (/\ commandVariables.state = "map"
                               /\ scope = "resolveRoot" => key \notin DOMAIN Def.Variables)
                                  => /\ key \in DOMAIN commandVariables.m
                                     /\ commandVariables.m[key] = Nil
        /\ (\A scope \in Scopes : \A key \in DOMAIN ScopeVariables(scope) :
               \E r \in ResultsOf(scope, key) : r.err = NoErr)
               => commandVariables.state = "map"

\* a non-required variable without any source sits in the returned bag as nil
C5_Witness ==
    /\ Running
    /\ commandVariables.state = "map"
    /\ \E scope \in Scopes : \E key \in DOMAIN ScopeVariables(scope) :
           LET vd == ScopeVariables(scope)[key]
           IN  /\ vd.Value = Nil /\ vd.ValueFrom.nil /\ vd.Prompt.nil /\ ~vd.Required
               /\ DOMAIN argv = {}
               /\ key \in DOMAIN commandVariables.m
               /\ commandVariables.m[key] = Nil

-----------------------------------------------------------------------------
(* C6 *)

\* C6: a form is shown, or an options command run, for a variable only when
\* its prompt definition populates exactly one kind, and then for that kind;
\* a definition populating no kind fails with the no-prompt error and one
\* populating several with the only-one error, with nothing started for it.
C6_ExactlyOnePromptKind ==
    Running =>
        \A scope \in Scopes : \A key \in DOMAIN ScopeVariables(scope) :
            LET vd    == ScopeVariables(scope)[key]
                kinds == PopulatedKinds(vd.Prompt)
                asked == /\ NoOverride(key) /\ vd.Value = Nil
                         /\ vd.ValueFrom.nil /\ ~vd.Prompt.nil
            IN  /\ \A c \in StartedFor(scope, key) :
                       c[1] \in { "ui", "options" } =>
                           /\ asked
                           /\ kinds = { c[2] }
                           /\ c[1] = "options" => c[2] \in { "select", "multiSelect" }
                /\ (asked /\ kinds = {}) =>
                       /\ Untouched(scope, key)
                       /\ \A r \in ResultsOf(scope, key) : r.err = NoPromptErr
                /\ (asked /\ Cardinality(kinds) >= 2) =>
                       /\ Untouched(scope, key)
                       /\ \A r \in ResultsOf(scope, key) : r.err = OnlyOnePromptErr
                /\ (asked /\ Cardinality(kinds) = 1 /\ ResultsOf(scope, key) # {}) =>
                       LoggedFor(scope, key) # {}

\* a definition with several prompt kinds was rejected before anything started
C6_Witness ==
    /\ pc = "exit"
    /\ err = OnlyOnePromptErr
    /\ calls = <<>>
    /\ commandVariables = NilBag

-----------------------------------------------------------------------------
(* C7 *)

\* C7: the bag resolved for a node holds every variable defined on the root,
\* on the node and on every command between the root and the node.
C7_AncestorVariablesInBag ==
    (OwnHandler /\ commandVariables.state = "map") =>
        /\ DOMAIN cfg.Variables \subseteq DOMAIN commandVariables.m
        /\ \A i \in 1..Len(node) :
               DOMAIN DefAt(cfg.Commands, SubSeq(node, 1, i)).Variables
                   \subseteq DOMAIN commandVariables.m

-----------------------------------------------------------------------------
(* C8 *)

\* C8: with no flag supplied, a name an ancestor (the root or a command above)
\* defines with a literal A resolves, at a node that redefines it with a
\* literal B, to B, and at a sibling of such a node that does not redefine
\* it, to A.
C8_Shadowing ==
    (OwnHandler /\ commandVariables.state = "map" /\ DOMAIN argv = {}) =>
        LET own      == DefAt(cfg.Commands, node).Variables
            siblings == SiblingsOf(cfg.Commands, node)
        IN  \A anc \in AncestorScopes(node) : \A key \in DOMAIN anc :
                anc[key].Value # Nil =>
                    /\ (key \in DOMAIN own /\ own[key].Value # Nil) =>
                           commandVariables.m[key] = own[key].Value
                    /\ (/\ key \notin DOMAIN own
                        /\ \E s \in DOMAIN siblings :
                               /\ key \in DOMAIN siblings[s].Variables
                               /\ siblings[s].Variables[key].Value # Nil) =>
                           /\ key \in DOMAIN commandVariables.m
                           /\ commandVariables.m[key] = anc[key].Value

-----------------------------------------------------------------------------
(* C9 *)

\* C9: with a configuration that holds a command with neither a template nor
\* a subcommand, tree construction fails and no command is ever invoked.
C9_DeadEndAbortsConstruction ==
    HasDeadEnd(cfg) => /\ node = <<>>
                       /\ pc = "exit" => exit # 0

-----------------------------------------------------------------------------
(* C10 *)

\* C10: invoking a command that has subcommands but no template resolves no
\* variable, shows no prompt and never calls the command executor.
C10_GroupNodeRunsNothing ==
    (Running /\ IsGroup(DefAt(cfg.Commands, node))) =>
        /\ results = {}
        /\ calls = <<>>
        /\ pending.kind = "none"

-----------------------------------------------------------------------------
(* Vocabulary of the properties about rendering and the final command *)

\* the command texts handed to the executor as the final command so far
FinalStarted ==
    { calls[i].cmd : i \in { j \in 1..Len(calls) : calls[j].kind = "final" } }
        \cup (IF pending.kind = "final" THEN { pending.cmd } ELSE {})

\* how often the final command was handed to the executor
FinalCount ==
    Cardinality({ j \in 1..Len(calls) : calls[j].kind = "final" })
        + (IF pending.kind = "final" THEN 1 ELSE 0)

\* the names the actions of a parsed template refer to
FieldsOf(tree) ==
    { tree[i].name : i \in { j \in 1..Len(tree) : tree[j].k = "field" } }

-----------------------------------------------------------------------------
(* C11 *)

\* C11: the handler of the invoked node resolves the variables of that node's
\* own definition, renders that node's own template and hands that text to
\* the executor, whatever siblings the node has.
C11_HandlerUsesOwnDefinition ==
    Running =>
        LET own == DefAt(cfg.Commands, node)
        IN  /\ \A r \in results :
                   r.scope = "resolveCmd" => r.key \in DOMAIN own.Variables
            /\ commandVariables.state = "map" =>
                   DOMAIN own.Variables \subseteq DOMAIN commandVariables.m
            /\ \A c \in FinalStarted :
                   c = RenderTemplate(own.Execute, commandVariables.m).out

-----------------------------------------------------------------------------
(* C12 *)

\* C12: with root variable name: Dingus and command greet: echo Hello $name,
\* the text handed to the executor is echo Hello Dingus when no flag is given
\* and echo Hello <s> when --name <s> is given.
C12_ShellReferencesReplaced ==
    (OwnHandler /\ cfg \in GreetConfigs
        /\ DefAt(cfg.Commands, node).Execute = ShellStyleTemplate) =>
        \A c \in FinalStarted :
            /\ DOMAIN argv = {} => c = EchoHello \o Dingus
            /\ ("name" \in DOMAIN argv /\ argv["name"] # UnsetFlagSentinel) =>
                   c = EchoHello \o argv["name"]

-----------------------------------------------------------------------------
(* C13 *)

\* C13: when the template of the handler refers to a name that is not a key
\* of the resolved bag, rendering fails with a template error, the invocation
\* fails and the final command is not executed.
C13_MissingReferenceFailsRendering ==
    (Running /\ commandVariables.state = "map") =>
        LET p == Parse(Def.Execute)
        IN  (p.err = NoErr /\ ~(FieldsOf(p.tree) \subseteq DOMAIN commandVariables.m)) =>
                /\ FinalStarted = {}
                /\ pc = "exit" /\ exit # 0
                /\ err = ParseErr

-----------------------------------------------------------------------------
(* C14 *)

\* the calls started for the variable, logged or in flight: kind, prompt
\* kind and the options shown
ShownFor(scope, key) ==
    { [kind |-> c.kind, ui |-> c.ui, options |-> c.options] : c \in LoggedFor(scope, key) }
        \cup (IF InFlightFor(scope, key)
              THEN { [kind |-> pending.kind, ui |-> pending.ui,
                      options |-> pending.options] }
              ELSE {})

\* the select definition of a prompt kind
SelectOf(pd, ui) == IF ui = "select" THEN pd.Select ELSE pd.MultiSelect

\* C14: a select or multi-select prompt with a non-empty static option list
\* shows exactly the configured options in the configured order, also when an
\* options command is configured, and the options command is never executed.
C14_StaticOptionsPresented ==
    Running =>
        \A scope \in Scopes : \A key \in DOMAIN ScopeVariables(scope) :
        \A ui \in { "select", "multiSelect" } :
            LET pd == ScopeVariables(scope)[key].Prompt
                sd == SelectOf(pd, ui)
            IN  (~pd.nil /\ ~sd.nil /\ Len(sd.Options) > 0) =>
                    \A c \in ShownFor(scope, key) :
                        /\ ~(c.kind = "options" /\ c.ui = ui)
                        /\ (c.kind = "ui" /\ c.ui = ui) => c.options = sd.Options

\* a select form showed the static list of a definition that also configures
\* an options command, and the user chose from it
C14_Witness ==
    /\ Running
    /\ \E scope \in Scopes : \E key \in DOMAIN ScopeVariables(scope) :
           LET sd == ScopeVariables(scope)[key].Prompt.Select
           IN  /\ ~sd.nil /\ sd.Options = StaticOptions /\ ~sd.OptionsFrom.nil
               /\ \E c \in LoggedFor(scope, key) :
                      /\ c.kind = "ui" /\ c.ui = "select"
                      /\ c.options = StaticOptions /\ c.ok
               /\ \A c \in LoggedFor(scope, key) : c.kind # "options"

-----------------------------------------------------------------------------
(* C15 *)

\* the final command ran and Run returned nil
FinalSucceeded ==
    \E i \in 1..Len(calls) : calls[i].kind = "final" /\ calls[i].ok

\* C15: the process exits with a non-zero status whenever resolution,
\* rendering or the final command returned an error, and with status zero
\* only when all three succeeded.
C15_ErrorsExitNonZero ==
    pc = "exit" =>
        /\ exit # -1
        /\ (\E r \in results : r.err # NoErr) => exit # 0
        /\ (Running /\ commandVariables.state = "map"
                /\ RenderTemplate(Def.Execute, commandVariables.m).err # NoErr) => exit # 0
        /\ (\E i \in 1..Len(calls) : calls[i].kind = "final" /\ ~calls[i].ok) => exit # 0
        /\ err # NoErr => exit # 0
        /\ exit = 0 =>
               /\ Running
               /\ \A r \in results : r.err = NoErr
               /\ commandVariables.state = "map"
               /\ RenderTemplate(Def.Execute, commandVariables.m).err = NoErr
               /\ FinalSucceeded
               /\ err = NoErr

\* resolution succeeded, rendering failed, and the process exited non-zero
C15_Witness ==
    /\ pc = "exit"
    /\ commandVariables.state = "map"
    /\ err = ParseErr
    /\ exit # 0

-----------------------------------------------------------------------------
(* C16 *)

\* a flag name no variable registers
UnregisteredFlag == "zz"

\* C16: for every string the user supplies as the value of a registered flag,
\* GetFlagValue reports the flag as supplied and returns that string; it
\* reports not supplied only for a flag that was not given or is not registered.
C16_SentinelDistinguishable ==
    Running =>
        \A n \in DOMAIN flags \cup { UnregisteredFlag } :
            GetFlagValue(flags, n) =
                IF n \in DOMAIN argv THEN [value |-> argv[n], ok |-> TRUE]
                ELSE [value |-> <<>>, ok |-> FALSE]

-----------------------------------------------------------------------------
(* C17 *)

-----------------------------------------------------------------------------
(* C18 *)

\* the flag name the configuration asks for: the override name, else the key
ConfiguredFlagName(key, vd) == IF vd.Flag # "" THEN vd.Flag ELSE key

\* C18: once the tree is built, the flag set of a node holds, for every
\* variable definition of the node and every root-level variable, one flag
\* named by the definition's override flag name, else by its key, and no
\* other flag; a flag that was not supplied holds the sentinel.
C18_OneFlagPerVariable ==
    Running =>
        LET own  == DefAt(cfg.Commands, node).Variables
            want == { ConfiguredFlagName(k, own[k]) : k \in DOMAIN own }
                        \cup { ConfiguredFlagName(k, cfg.Variables[k]) :
                                 k \in DOMAIN cfg.Variables }
        IN  /\ DOMAIN flags = want
            /\ Cardinality({ ConfiguredFlagName(k, own[k]) : k \in DOMAIN own })
                   = Cardinality(DOMAIN own)
            /\ Cardinality({ ConfiguredFlagName(k, cfg.Variables[k]) :
                               k \in DOMAIN cfg.Variables })
                   = Cardinality(DOMAIN cfg.Variables)
            /\ \A n \in DOMAIN flags : n \notin DOMAIN argv => flags[n] = UnsetFlagSentinel

\* a command with a variable that configures the override flag name f was
\* invoked without flags: its flag set holds f with the sentinel
C18_Witness ==
    /\ Running
    /\ DOMAIN argv = {}
    /\ \E k \in DOMAIN DefAt(cfg.Commands, node).Variables :
           /\ DefAt(cfg.Commands, node).Variables[k].Flag = "f"
           /\ "f" \in DOMAIN flags
           /\ k \notin DOMAIN flags
           /\ flags["f"] = UnsetFlagSentinel

-----------------------------------------------------------------------------
(* C19 *)

\* C19: the final command is handed to the executor at most once, after every
\* variable resolved without error and the template rendered; after a failed
\* resolution there is no bag and no final command; after a failed rendering
\* there is no final command; no variable is resolved twice and nothing runs
\* after the final command.
C19_PhasesInOrderFailFast ==
    /\ FinalCount <= 1
    /\ FinalCount = 1 =>
           /\ commandVariables.state = "map"
           /\ \A r \in results : r.err = NoErr
           /\ \A scope \in Scopes : \A key \in DOMAIN ScopeVariables(scope) :
                  ResultsOf(scope, key) # {}
           /\ RenderTemplate(Def.Execute, commandVariables.m).err = NoErr
           /\ FinalStarted = { RenderTemplate(Def.Execute, commandVariables.m).out }
           /\ pending.kind \in { "none", "final" }
           /\ \A i \in 1..Len(calls) : calls[i].kind = "final" => i = Len(calls)
    /\ (\E r \in results : r.err # NoErr) =>
           /\ pc = "exit"
           /\ commandVariables = NilBag
           /\ FinalCount = 0
           /\ Cardinality({ r \in results : r.err # NoErr }) = 1
    /\ (commandVariables.state = "map"
            /\ RenderTemplate(Def.Execute, commandVariables.m).err # NoErr) =>
           /\ pc = "exit"
           /\ FinalCount = 0
    /\ Running =>
           \A scope \in Scopes : \A key \in DOMAIN ScopeVariables(scope) :
               /\ Cardinality(ResultsOf(scope, key)) <= 1
               /\ \A k \in { "valueFrom", "options", "ui" } :
                      Cardinality({ i \in 1..Len(calls) :
                                      /\ calls[i].scope = scope /\ calls[i].key = key
                                      /\ calls[i].kind = k }) <= 1

\* resolution succeeded and rendering failed: the process is over and nothing
\* was handed to the executor as the final command
C19_Witness ==
    /\ pc = "exit"
    /\ commandVariables.state = "map"
    /\ results # {}
    /\ RenderTemplate(Def.Execute, commandVariables.m).err # NoErr
    /\ FinalCount = 0

-----------------------------------------------------------------------------
(* C20 *)

\* C20: for a root-level variable that the invoked node defines again, the
\* root-level definition is not resolved: its command is not run, its prompt
\* is not shown, and no error comes out of it.
C20_ShadowedRootNotResolved ==
    OwnHandler =>
        \A key \in DOMAIN cfg.Variables \cap DOMAIN DefAt(cfg.Commands, node).Variables :
            /\ Untouched("resolveRoot", key)
            /\ \A r \in ResultsOf("resolveRoot", key) : r.err = NoErr

-----------------------------------------------------------------------------
(* C21 *)

PromptSpecificationErrs == { NoPromptErr, OnlyOnePromptErr }

\* a prompt definition that populates no kind, or more than one
InvalidPrompt(pd) == ~pd.nil /\ Cardinality(PopulatedKinds(pd)) # 1

-----------------------------------------------------------------------------
(* C22 *)

\* C22: when an options command failed to run or exited non-zero, or wrote
\* to stderr, the invocation has failed (with the stderr text as the message
\* when the command exited successfully), no bag was returned, the variable
\* got no value and no form was shown after the command.
C22_OptionsCommandFailureFailsPrompt ==
    \A i \in 1..Len(calls) :
        LET c == calls[i]
        IN  (c.kind = "options" /\ (~c.ok \/ c.stderr # <<>>)) =>
                /\ pc = "exit" /\ exit # 0
                /\ err = IF c.ok THEN StderrErr(c.stderr) ELSE ProcessErr
                /\ commandVariables = NilBag
                /\ i = Len(calls) /\ pending.kind = "none"
                /\ ResultsOf(c.scope, c.key) # {}
                /\ \A r \in ResultsOf(c.scope, c.key) : r.err = err /\ r.val = Nil

\* a successful options command printed an option and wrote to stderr
C22_Witness ==
    \E i \in 1..Len(calls) :
        /\ calls[i].kind = "options" /\ calls[i].ok
        /\ calls[i].stderr # <<>> /\ calls[i].stdout = << "a" >>
        /\ err = StderrErr(calls[i].stderr)

-----------------------------------------------------------------------------
(* C23 *)

\* the lines of a text; a text without characters has no line
LinesOf(text) == IF text = <<>> THEN <<>> ELSE Split(text, "\n")

\* C23: after an options command that succeeded with empty stderr, the form
\* shows the lines of its stdout, trimmed of trailing newlines and spaces, in
\* output order; a command that printed nothing, or only newlines and
\* spaces, yields no option at all.
C23_OptionsAreTrimmedLines ==
    \A i \in 1..Len(calls) :
        LET c        == calls[i]
            expected == LinesOf(TrimRight(c.stdout, {"\n", " "}))
        IN  (c.kind = "options" /\ c.ok /\ c.stderr = <<>>) =>
                IF i < Len(calls)
                THEN calls[i + 1].kind = "ui" /\ calls[i + 1].options = expected
                ELSE pending.kind = "ui" /\ pending.options = expected

-----------------------------------------------------------------------------
(* C24 *)

\* C24: once the final command has run, the invocation is over; it succeeded
\* if and only if the interpreter returned no error, whatever the command
\* wrote to stderr.
C24_FinalCommandFailsOnlyOnProcessError ==
    \A i \in 1..Len(calls) :
        LET c == calls[i]
        IN  c.kind = "final" =>
                /\ i = Len(calls) /\ pending.kind = "none"
                /\ pc = "exit"
                /\ exit = 0 <=> c.ok
                /\ err = IF c.ok THEN NoErr ELSE ProcessErr

\* a final command that wrote to stderr and exited with status zero made the
\* invocation succeed
C24_Witness ==
    /\ pc = "exit" /\ exit = 0 /\ err = NoErr
    /\ \E i \in 1..Len(calls) :
           calls[i].kind = "final" /\ calls[i].ok /\ calls[i].stderr # <<>>

-----------------------------------------------------------------------------
(* C25 *)

\* C25: after a value-from-command that succeeded with empty stderr the
\* variable has a string value without error: a prefix of stdout that does
\* not end with a newline or a space, followed in stdout by newlines and
\* spaces only, and that trimming leaves unchanged.
C25_ValueIsRightTrimmedStdout ==
    \A i \in 1..Len(calls) :
        LET c == calls[i]
        IN  (c.kind = "valueFrom" /\ c.ok /\ c.stderr = <<>>) =>
                /\ ResultsOf(c.scope, c.key) # {}
                /\ \A r \in ResultsOf(c.scope, c.key) :
                       /\ r.err = NoErr
                       /\ r.val.t = "string"
                       /\ Len(r.val.s) <= Len(c.stdout)
                       /\ r.val.s = SubSeq(c.stdout, 1, Len(r.val.s))
                       /\ r.val.s # <<>> => r.val.s[Len(r.val.s)] \notin { "\n", " " }
                       /\ \A j \in (Len(r.val.s) + 1)..Len(c.stdout) :
                              c.stdout[j] \in { "\n", " " }
                       /\ TrimRight(r.val.s, {"\n", " "}) = r.val.s

\* a required variable whose command printed only a space and a newline
\* resolved to the empty string, and the bag was returned
C25_Witness ==
    /\ Running
    /\ commandVariables.state = "map"
    /\ \E i \in 1..Len(calls) :
           /\ calls[i].kind = "valueFrom" /\ calls[i].ok /\ calls[i].stderr = <<>>
           /\ calls[i].stdout = << " ", "\n" >>
           /\ ScopeVariables(calls[i].scope)[calls[i].key].Required
           /\ commandVariables.m[calls[i].key] = Str(<<>>)

-----------------------------------------------------------------------------
(* C26 *)

\* C26: the error of a failed resolution does not depend on the order in
\* which the variables of a scope are visited: when a variable failed, no
\* variable of its scope that was not visited yet fails, by its definition
\* and the flags alone, with another error.
C26_OrderInsignificant ==
    (Running /\ pc = "exit") =>
        \A r \in results :
            r.err # NoErr =>
                \A key \in DOMAIN ScopeVariables(r.scope) \ { r.key } :
                    ResultsOf(r.scope, key) = {} =>
                        LET step == getVariableValue(key, ScopeVariables(r.scope)[key],
                                                     flags)
                        IN  ~(step.k = "error" /\ step.err # r.err)

-----------------------------------------------------------------------------
(* C27 *)

-----------------------------------------------------------------------------
(* C28 *)

\* how often a call of a kind was started for a variable
StartedCount(scope, key, kind) ==
    Cardinality({ i \in 1..Len(calls) :
                    /\ calls[i].scope = scope /\ calls[i].key = key
                    /\ calls[i].kind = kind })
        + (IF InFlightFor(scope, key) /\ pending.kind = kind THEN 1 ELSE 0)

\* at most one value-from-command or one form, plus at most one options
\* command, per variable definition, and one blocking call at a time
CallsBounded ==
    /\ Running =>
           \A scope \in Scopes : \A key \in DOMAIN ScopeVariables(scope) :
               /\ StartedCount(scope, key, "valueFrom")
                      + StartedCount(scope, key, "ui") <= 1
               /\ StartedCount(scope, key, "options") <= 1
    /\ pending.kind # "none" <=> pc \in { "waitExec", "waitPrompt" }
    /\ FinalCount <= 1

\* while a subprocess or a form is awaited, the only step is its return
ReturnEndsWaiting ==
    pc \in { "waitExec", "waitPrompt" } =>
        /\ Len(calls') = Len(calls) + 1
        /\ calls'[Len(calls')].kind = pending.kind
        /\ calls'[Len(calls')].key = pending.key

OnlyReturnsEndWaiting == [][ReturnEndsWaiting]_vars

\* C28: when every subprocess and every form returns, every invocation
\* completes; resolution starts at most one value-from-command or form and at
\* most one options command per variable definition, one at a time, and a
\* pending subprocess or form ends only by returning.
C28_InvocationCompletes ==
    /\ []CallsBounded
    /\ OnlyReturnsEndWaiting
    /\ <>(pc = "exit")

\* an invocation completed after an options command, a form and the final
\* command had each returned
C28_Witness ==
    /\ pc = "exit"
    /\ Len(calls) = 3
    /\ calls[1].kind = "options" /\ calls[2].kind = "ui" /\ calls[3].kind = "final"

-----------------------------------------------------------------------------
(* C29 *)

\* C29: a supplied flag overrides only the variable it was registered for:
\* when the only flag supplied is the custom override flag of a variable A, a
\* different variable B with a literal resolves to its literal, also when
\* A's flag name is B's key.
C29_FlagOverridesOnlyItsVariable ==
    OwnHandler =>
        \A sa \in Scopes : \A ka \in DOMAIN ScopeVariables(sa) :
        \A sb \in Scopes : \A kb \in DOMAIN ScopeVariables(sb) :
            LET A == ScopeVariables(sa)[ka]
                B == ScopeVariables(sb)[kb]
            IN  (/\ ka # kb
                 /\ A.Flag # ""
                 /\ DOMAIN argv = { A.Flag }
                 /\ ConfiguredFlagName(kb, B) # A.Flag
                 /\ B.Value # Nil) =>
                    \A r \in ResultsOf(sb, kb) : r.val = B.Value

-----------------------------------------------------------------------------
(* C30 *)

\* the value GetVariablesFor stored last under key: the one of the command's
\* definition when there is one, else the one of the root-level definition
StoredScope(key) ==
    IF key \in DOMAIN Def.Variables THEN "resolveCmd" ELSE "resolveRoot"

====
